---------------------------- MODULE Spec2Model ----------------------------
(***************************************************************************)
(* A model of the BioCro module-composition and time-integration engine:   *)
(* the integrator's integrate() entry point, the SystemSolverFactory, the  *)
(* modules of the module library (ball_berry,                              *)
(* penman_monteith_leaf_temperature, senescence_coefficient_logistic,      *)
(* thermal_time_linear), the multilayer canopy output naming, and the      *)
(* construction of the steady evaluation order.                            *)
(*                                                                         *)
(* Each component has its own specification (SpecIntegrator, SpecFactory,  *)
(* ...) over the shared variables; a component's specification leaves the  *)
(* other components' variables at their initial values.                    *)
(***************************************************************************)
EXTENDS Integers, Sequences, FiniteSets, TLC

VARIABLES
    \* ---- integrator (src/unnamed/part_000) ----
    pc,                               \* position inside integrator::integrate
    integrate_method_has_been_called, \* the integrator's flag
    check_adaptive_compatible,        \* the integrator's configuration
    max_steps,                        \* the integrator's configuration
    adaptive_compatible,              \* sys->is_adaptive_compatible()
    need_steps,                       \* steps the system needs to reach its final time
    ncalls,                           \* the system's call counter
    ncalls_at_entry,                  \* ncalls when the current integrate call began
    calls,                            \* calls made by the body of the current integrate call
    steps_done,                       \* steps accepted by the running do_integrate
    pending,                          \* value produced by the callee, about to be returned
    ret,                              \* value returned by the last integrate call
    ncompleted,                       \* number of integrate calls completed
    \* ---- SystemSolverFactory (src/unnamed/part_001) ----
    system_solver_creators,           \* the registry: solver name -> creator
    fcall,                            \* the last operator() request
    created,                          \* creator invocations made by the last request
    fresult,                          \* what the last request returned or threw
    nfcalls,                          \* number of requests made
    solver_name_vector,               \* what the last get_solvers() returned
    \* ---- module library (src/src/module_library) ----
    focus,                            \* the module instantiated in this run
    constructed,                      \* whether its constructor has run
    bound,                            \* member -> quantity name, as the constructor bound them
    quantities,                       \* the quantity store: name -> value
    derivatives,                      \* the derivative store: state variable -> rate
    reads,                            \* quantity names read by the last evaluation
    writes,                           \* quantity names written by the last evaluation
    evals,                            \* inputs and outputs of each evaluation made, in order
    nsets,                            \* writes made to the stores from outside the module
    \* ---- multilayer_canopy_properties (multilayer_canopy_properties.h) ----
    ml_nlayers,                       \* the nlayers argument of the constructor
    ml_store,                         \* the names output_quantities holds
    ml_step,                          \* member initializers completed
    ml_inputs,                        \* member -> input name bound
    ml_outputs,                       \* member -> names bound, one per layer
    ml_error,                         \* the failure that ended construction
    \* ---- dynamical system construction ----
    sys_modules,                      \* the steady modules, in the order given
    sys_parameters,                   \* names supplied as parameters or state
    sys_phase,                        \* "new", "sorting", "ready" or "failed"
    sys_order,                        \* the steady evaluation order built so far
    sys_error,                        \* the failure that ended construction
    \* ---- one derivative evaluation of the dynamical system ----
    ev_state_variables,               \* the state variables, in state-vector order
    ev_pc,                            \* "none", "steady", "derivative", "collect", "done"
    ev_log,                           \* what ran in the current pass, in order
    ev_store,                         \* the quantity store (state, time, drivers)
    ev_written,                       \* quantities written by the steady phase
    ev_derivs,                        \* the derivative store
    ev_result,                        \* the derivative vector handed back
    ev_passes                         \* completed evaluations

intVars == <<pc, integrate_method_has_been_called, check_adaptive_compatible,
             max_steps, adaptive_compatible, need_steps, ncalls,
             ncalls_at_entry, calls, steps_done, pending, ret, ncompleted>>

facVars == <<system_solver_creators, fcall, created, fresult, nfcalls, solver_name_vector>>

modVars == <<focus, constructed, bound, quantities, derivatives, reads, writes,
             evals, nsets>>

mlVars == <<ml_nlayers, ml_store, ml_step, ml_inputs, ml_outputs, ml_error>>

evVars == <<ev_state_variables, ev_pc, ev_log, ev_store, ev_written, ev_derivs, ev_result, ev_passes>>

sysVars == <<sys_modules, sys_parameters, sys_phase, sys_order, sys_error, evVars>>

vars == <<intVars, facVars, modVars, mlVars, sysVars>>

\* The variables of the components other than the named one.
notIntVars == <<facVars, modVars, mlVars, sysVars>>
notFacVars == <<intVars, modVars, mlVars, sysVars>>
notModVars == <<intVars, facVars, mlVars, sysVars>>
notMlVars == <<intVars, facVars, modVars, sysVars>>
notSysVars == <<intVars, facVars, modVars, mlVars>>

(***************************************************************************)
(* Bounds of the model.                                                    *)
(***************************************************************************)
MaxIntegrateCalls == 2   \* integrate calls made on one integrator
MaxNeedSteps == 2        \* steps a system may need
MaxStepsLimit == 2       \* largest max_steps configured
MaxOutsideCalls == 2     \* derivative evaluations made outside integrate
MaxFactoryCalls == 2     \* requests made to the factory
MaxParam == 2            \* each numeric solver parameter ranges over 1..MaxParam
MaxSets == 1             \* writes made to the stores between evaluations
MaxEvals == 2            \* evaluations of one module instance
MaxLayers == 10          \* largest number of canopy layers
MaxSystemModules == 3    \* steady modules of one dynamical system
MaxPasses == 2           \* derivative evaluations of one dynamical system

NoValue == [kind |-> "none", by |-> "none", len |-> 0]

(***************************************************************************)
(* INTEGRATOR                                                              *)
(***************************************************************************)

\* integrate, line 7: the branch taken after the flag has been set.
AfterCheckIgnoresCompat(check, compat) ==
    IF check /\ compat THEN "call_handle" ELSE "call_reset"

AfterCheckSkipsReset(check, compat) ==
    IF check /\ ~compat THEN "call_handle" ELSE "call_do_integrate"

AfterCheck(check, compat) ==
    IF check /\ ~compat THEN "call_handle" ELSE "call_reset"

\* integrate, lines 10-11: after reset_ncalls the stepping algorithm is run.
AfterReset == "call_do_integrate"

\* sys->reset_ncalls()
reset_ncalls(n) == 0

\* One derivative evaluation increments the system's counter.
evaluate_ncalls(n) == n + 1

\* An integrate that sets the flag on the stepping branch only.
IntegrateEnterFlagInElseBranch ==
    /\ pc = "idle"
    /\ ncompleted < MaxIntegrateCalls
    /\ integrate_method_has_been_called' =
           (integrate_method_has_been_called
                \/ ~(check_adaptive_compatible /\ ~adaptive_compatible))
    /\ ncalls_at_entry' = ncalls
    /\ calls' = <<>>
    /\ steps_done' = 0
    /\ pending' = NoValue
    /\ pc' = AfterCheck(check_adaptive_compatible, adaptive_compatible)
    /\ UNCHANGED <<check_adaptive_compatible, max_steps, adaptive_compatible,
                   need_steps, ncalls, ret, ncompleted>>

\* Line 3-5: entry to integrate; the flag is set before anything else.
IntegrateEnter ==
    /\ pc = "idle"
    /\ ncompleted < MaxIntegrateCalls
    /\ integrate_method_has_been_called' = TRUE
    /\ ncalls_at_entry' = ncalls
    /\ calls' = <<>>
    /\ steps_done' = 0
    /\ pending' = NoValue
    /\ pc' = AfterCheck(check_adaptive_compatible, adaptive_compatible)
    /\ UNCHANGED <<check_adaptive_compatible, max_steps, adaptive_compatible,
                   need_steps, ncalls, ret, ncompleted>>

\* Line 8: handle_adaptive_incompatibility(sys).  The fallback either runs a
\* substitute fixed-step method (n derivative evaluations) or reports a failure.
HandleAdaptiveIncompatibility ==
    /\ pc = "call_handle"
    /\ calls' = Append(calls, "handle_adaptive_incompatibility")
    /\ \E n \in 0..need_steps :
         \/ /\ pending' = [kind |-> "series",
                           by |-> "handle_adaptive_incompatibility", len |-> n]
            /\ ncalls' = ncalls + n
         \/ /\ n = 0
            /\ pending' = [kind |-> "AdaptiveIncompatible",
                           by |-> "handle_adaptive_incompatibility", len |-> 0]
            /\ ncalls' = ncalls
    /\ pc' = "return"
    /\ UNCHANGED <<integrate_method_has_been_called, check_adaptive_compatible,
                   max_steps, adaptive_compatible, need_steps, ncalls_at_entry,
                   steps_done, ret, ncompleted>>

\* An else branch that goes on to do_integrate with the counter as it was.
ResetNcallsSkipped ==
    /\ pc = "call_reset"
    /\ calls' = Append(calls, "reset_ncalls")
    /\ pc' = AfterReset
    /\ UNCHANGED <<integrate_method_has_been_called, check_adaptive_compatible,
                   max_steps, adaptive_compatible, need_steps, ncalls,
                   ncalls_at_entry, steps_done, pending, ret, ncompleted>>

\* Line 10: sys->reset_ncalls().
ResetNcalls ==
    /\ pc = "call_reset"
    /\ calls' = Append(calls, "reset_ncalls")
    /\ ncalls' = reset_ncalls(ncalls)
    /\ pc' = AfterReset
    /\ UNCHANGED <<integrate_method_has_been_called, check_adaptive_compatible,
                   max_steps, adaptive_compatible, need_steps, ncalls_at_entry,
                   steps_done, pending, ret, ncompleted>>

\* Line 11: do_integrate(sys) starts.
DoIntegrateStart ==
    /\ pc = "call_do_integrate"
    /\ calls' = Append(calls, "do_integrate")
    /\ steps_done' = 0
    /\ pc' = "stepping"
    /\ UNCHANGED <<integrate_method_has_been_called, check_adaptive_compatible,
                   max_steps, adaptive_compatible, need_steps, ncalls,
                   ncalls_at_entry, pending, ret, ncompleted>>

\* do_integrate: one accepted step, one derivative evaluation.
DoIntegrateStep ==
    /\ pc = "stepping"
    /\ steps_done < need_steps
    /\ steps_done < max_steps
    /\ steps_done' = steps_done + 1
    /\ ncalls' = evaluate_ncalls(ncalls)
    /\ UNCHANGED <<pc, integrate_method_has_been_called,
                   check_adaptive_compatible, max_steps, adaptive_compatible,
                   need_steps, ncalls_at_entry, calls, pending, ret, ncompleted>>

\* do_integrate: the final time is reached; the series holds one snapshot per step.
DoIntegrateFinish ==
    /\ pc = "stepping"
    /\ steps_done = need_steps
    /\ pending' = [kind |-> "series", by |-> "do_integrate", len |-> steps_done]
    /\ pc' = "return"
    /\ UNCHANGED <<integrate_method_has_been_called, check_adaptive_compatible,
                   max_steps, adaptive_compatible, need_steps, ncalls,
                   ncalls_at_entry, calls, steps_done, ret, ncompleted>>

\* A do_integrate that hands back the steps taken so far as a series.
DoIntegrateStepLimitTruncates ==
    /\ pc = "stepping"
    /\ steps_done < need_steps
    /\ steps_done = max_steps
    /\ pending' = [kind |-> "series", by |-> "do_integrate", len |-> steps_done]
    /\ pc' = "return"
    /\ UNCHANGED <<integrate_method_has_been_called, check_adaptive_compatible,
                   max_steps, adaptive_compatible, need_steps, ncalls,
                   ncalls_at_entry, calls, steps_done, ret, ncompleted>>

\* do_integrate: the step limit is hit before the final time.
DoIntegrateStepLimit ==
    /\ pc = "stepping"
    /\ steps_done < need_steps
    /\ steps_done = max_steps
    /\ pending' = [kind |-> "StepLimitExceeded", by |-> "do_integrate",
                   len |-> steps_done]
    /\ pc' = "return"
    /\ UNCHANGED <<integrate_method_has_been_called, check_adaptive_compatible,
                   max_steps, adaptive_compatible, need_steps, ncalls,
                   ncalls_at_entry, calls, steps_done, ret, ncompleted>>

\* Lines 8 and 11: `return <callee>(sys)`: the callee's value (or its failure)
\* leaves integrate as it is.
IntegrateReturn ==
    /\ pc = "return"
    /\ ret' = pending
    /\ ncompleted' = ncompleted + 1
    /\ pc' = "idle"
    /\ UNCHANGED <<integrate_method_has_been_called, check_adaptive_compatible,
                   max_steps, adaptive_compatible, need_steps, ncalls,
                   ncalls_at_entry, calls, steps_done, pending>>

\* Between integrate calls the system is evaluated by other callers.
EvaluateOutside ==
    /\ pc = "idle"
    /\ ncalls < MaxOutsideCalls
    /\ ncalls' = evaluate_ncalls(ncalls)
    /\ UNCHANGED <<pc, integrate_method_has_been_called,
                   check_adaptive_compatible, max_steps, adaptive_compatible,
                   need_steps, ncalls_at_entry, calls, steps_done, pending, ret,
                   ncompleted>>

\* The caller builds another solver (other max_steps, other
\* check_adaptive_compatible) for the same system; the value returned by the
\* last integrate call stays with the caller.
NewSolver ==
    /\ pc = "idle"
    /\ integrate_method_has_been_called' = FALSE
    /\ check_adaptive_compatible' \in BOOLEAN
    /\ max_steps' \in 1..MaxStepsLimit
    /\ calls' = <<>>
    /\ steps_done' = 0
    /\ ncalls_at_entry' = ncalls
    /\ UNCHANGED <<pc, adaptive_compatible, need_steps, ncalls, pending, ret,
                   ncompleted>>


(***************************************************************************)
(* SYSTEM SOLVER FACTORY                                                   *)
(***************************************************************************)

\* Lines 6-13: the registry.
CreatorsInit ==
    [n \in {"Gro", "Gro_euler", "Gro_euler_odeint", "Gro_rsnbrk", "Gro_rk4",
            "Gro_rkck54"} |->
        CASE n = "Gro" -> "auto_solver<preferred_state_type>"
          [] n = "Gro_euler" -> "homemade_euler_solver<preferred_state_type>"
          [] n = "Gro_euler_odeint" -> "boost_euler_system_solver<preferred_state_type>"
          [] n = "Gro_rsnbrk" -> "boost_rsnbrk_system_solver"
          [] n = "Gro_rk4" -> "boost_rk4_system_solver<preferred_state_type>"
          [] n = "Gro_rkck54" -> "boost_rkck54_system_solver<preferred_state_type>"]

\* Names a caller may ask for: the registered ones and some that are not.
RequestedNames ==
    {"Gro", "Gro_euler", "Gro_euler_odeint", "Gro_rsnbrk", "Gro_rk4",
     "Gro_rkck54", "DoesNotExist", "", "gro", "Gro_rk", "Gro_rk45", "Gro "}

NoRequest == [name |-> "", step_size |-> 0, rel_error_tolerance |-> 0,
              abs_error_tolerance |-> 0, max_steps |-> 0]

NoResult == [kind |-> "none"]

FactoryAtRest ==
    /\ system_solver_creators = CreatorsInit
    /\ fcall = NoRequest
    /\ created = <<>>
    /\ fresult = NoResult
    /\ nfcalls = 0
    /\ solver_name_vector = <<>>

\* Whether string s occurs in string t.
Contains(t, s) ==
    \/ Len(s) = 0
    \/ \E i \in 1..(Len(t) - Len(s) + 1) : SubSeq(t, i, i + Len(s) - 1) = s

\* Line 23: std::map::at, an exact match on the key.
HasCreatorIgnoringSuffix(registry, name) ==
    \E k \in DOMAIN registry : Len(k) <= Len(name) /\ SubSeq(name, 1, Len(k)) = k

HasCreator(registry, name) == name \in DOMAIN registry

\* Line 23: the arguments handed to the creator, in the creator's order
\* (step_size, rel_error_tolerance, abs_error_tolerance, max_steps).
CreatorArgsSwapped(step_size, rel_error_tolerance, abs_error_tolerance, maxsteps) ==
    <<step_size, abs_error_tolerance, rel_error_tolerance, maxsteps>>

CreatorArgs(step_size, rel_error_tolerance, abs_error_tolerance, maxsteps) ==
    <<step_size, rel_error_tolerance, abs_error_tolerance, maxsteps>>

\* Lines 25-28: the message of the error thrown from the catch clause.
UnknownSolverMessageWithoutName(system_solver_name) ==
    "\"" \o "\"" \o " was given as a system_solver name, "
         \o "but no system_solver with that name could be found.\n."

UnknownSolverMessage(system_solver_name) ==
    "\"" \o system_solver_name \o "\"" \o " was given as a system_solver name, "
         \o "but no system_solver with that name could be found.\n."

\* What a creator does with its arguments: it builds the solver, or fails with
\* std::out_of_range, or fails with another exception.
CreatorOutcomes == {"solver", "out_of_range", "other_exception"}

\* Lines 15-32: SystemSolverFactory::operator().
FactoryCall(system_solver_name, step_size, rel_error_tolerance, abs_error_tolerance, maxsteps, outcome) ==
    /\ nfcalls < MaxFactoryCalls
    /\ nfcalls' = nfcalls + 1
    /\ fcall' = [name |-> system_solver_name, step_size |-> step_size,
                 rel_error_tolerance |-> rel_error_tolerance,
                 abs_error_tolerance |-> abs_error_tolerance,
                 max_steps |-> maxsteps]
    /\ IF HasCreator(system_solver_creators, system_solver_name)
       THEN LET args == CreatorArgs(step_size, rel_error_tolerance,
                                    abs_error_tolerance, maxsteps)
                creator == system_solver_creators[system_solver_name]
            IN  /\ created' = <<[creator |-> creator, args |-> args]>>
                /\ fresult' =
                     CASE outcome = "solver" ->
                            [kind |-> "solver", type |-> creator, args |-> args]
                       [] outcome = "out_of_range" ->
                            \* caught by line 24 and thrown again by line 30
                            [kind |-> "out_of_range",
                             message |-> UnknownSolverMessage(system_solver_name)]
                       [] OTHER ->
                            [kind |-> "other_exception"]
       ELSE /\ outcome = "solver"
            /\ created' = <<>>
            /\ fresult' = [kind |-> "out_of_range",
                           message |-> UnknownSolverMessage(system_solver_name)]
    /\ UNCHANGED <<system_solver_creators, solver_name_vector>>

FactoryRequest ==
    \E name \in RequestedNames, ss \in 1..MaxParam, rel \in 1..MaxParam,
       abs \in 1..MaxParam, ms \in 1..MaxParam, outcome \in CreatorOutcomes :
        FactoryCall(name, ss, rel, abs, ms, outcome)

\* Lines 34-41: get_solvers(): the key of every entry of the registry is
\* pushed onto the vector, in the map's iteration order.
RECURSIVE get_solvers(_)
get_solvers(registry) ==
    IF DOMAIN registry = {} THEN <<>>
    ELSE LET x == CHOOSE k \in DOMAIN registry : TRUE
             rest == [k \in DOMAIN registry \ {x} |-> registry[k]]
         IN  <<x>> \o get_solvers(rest)

GetSolvers ==
    /\ solver_name_vector' = get_solvers(system_solver_creators)
    /\ UNCHANGED <<system_solver_creators, fcall, created, fresult, nfcalls>>

(***************************************************************************)
(* QUANTITY VALUES                                                         *)
(*                                                                         *)
(* A double is modelled as an exact rational <<n, d>> in lowest terms with *)
(* d > 0; <<1, 0>> and <<-1, 0>> are the infinities and <<0, 0>> is NaN,   *)
(* with the results IEEE 754 gives for division by zero and for            *)
(* operations on them.  Rounding and the sign of zero are not modelled.    *)
(***************************************************************************)
RECURSIVE GCD(_, _)
GCD(a, b) == IF b = 0 THEN a ELSE GCD(b, a % b)

Abs(x) == IF x < 0 THEN -x ELSE x

Sign(x) == IF x < 0 THEN -1 ELSE IF x > 0 THEN 1 ELSE 0

\* The value n/d (d >= 0 after the sign is moved to n), in lowest terms.
Norm(n, d) ==
    IF d = 0 THEN <<Sign(n), 0>>
    ELSE LET g == GCD(Abs(n), Abs(d))
         IN  IF d < 0 THEN <<(-n) \div g, (-d) \div g>> ELSE <<n \div g, d \div g>>

R(i) == <<i, 1>>
NaN == <<0, 0>>

RNeg(a) == <<-a[1], a[2]>>

RAdd(a, b) ==
    IF a[2] = 0 \/ b[2] = 0
    THEN IF a[2] = 0 /\ b[2] = 0 THEN (IF a = b THEN a ELSE NaN)
         ELSE IF a[2] = 0 THEN a ELSE b
    ELSE LET g == GCD(a[2], b[2])
         IN  Norm(a[1] * (b[2] \div g) + b[1] * (a[2] \div g), (a[2] \div g) * b[2])

RSub(a, b) == RAdd(a, RNeg(b))

RMul(a, b) ==
    IF a[2] = 0 \/ b[2] = 0 THEN <<Sign(a[1]) * Sign(b[1]), 0>>
    ELSE LET g1 == GCD(Abs(a[1]), b[2])
             g2 == GCD(Abs(b[1]), a[2])
         IN  Norm((a[1] \div g1) * (b[1] \div g2), (a[2] \div g2) * (b[2] \div g1))

\* 1/a: 1/0 is +infinity, 1/infinity is 0, 1/NaN is NaN.
RInv(a) ==
    IF a[1] < 0 THEN <<-a[2], -a[1]>>
    ELSE IF a = NaN THEN NaN
    ELSE <<a[2], a[1]>>

RDiv(a, b) == RMul(a, RInv(b))

\* a <= b as doubles compare: false when either is NaN.
RLeq(a, b) ==
    /\ a # NaN
    /\ b # NaN
    /\ IF a[2] = 0 \/ b[2] = 0
       THEN IF a[2] = 0 /\ b[2] = 0 THEN a[1] <= b[1]
            ELSE IF a[2] = 0 THEN a[1] < 0 ELSE b[1] > 0
       ELSE a[1] * b[2] <= b[1] * a[2]

RECURSIVE Pow2(_)
Pow2(k) == IF k = 0 THEN 1 ELSE 2 * Pow2(k - 1)

\* exp of <cmath>, on the integers the model feeds it: the base-2 exponential
\* stands in for e^x (positive, increasing, exp(0) = 1).
Exp(x) ==
    IF x[2] = 0 THEN (IF x[1] > 0 THEN x ELSE IF x[1] < 0 THEN R(0) ELSE NaN)
    ELSE IF x[1] >= 0 THEN <<Pow2(x[1] \div x[2]), 1>>
    ELSE <<1, Pow2((-x[1]) \div x[2])>>


(***************************************************************************)
(* MODULE LIBRARY                                                          *)
(*                                                                         *)
(* A module instance holds, for each of its members, the name of the       *)
(* quantity the constructor bound it to (get_input / get_ip / get_op).     *)
(* do_operation reads the input store through the input members and hands  *)
(* (output member, value) pairs to update().                               *)
(***************************************************************************)
SeqToSet(sq) == {sq[i] : i \in DOMAIN sq}

\* ---- ball_berry (ball_berry.h) ----
ball_berry_constructor_binds_leaf_temperature_twice ==
    [inputs |-> [net_assimilation_rate |-> "net_assimilation_rate",
                 ambient_c |-> "Catm",
                 ambient_rh |-> "rh",
                 b0 |-> "b0",
                 b1 |-> "b1",
                 gbw |-> "gbw",
                 leaf_temperature |-> "leaf_temperature",
                 ambient_air_temperature |-> "leaf_temperature"],
     outputs |-> [leaf_stomatal_conductance_op |-> "leaf_stomatal_conductance"]]

ball_berry_constructor ==
    [inputs |-> [net_assimilation_rate |-> "net_assimilation_rate",
                 ambient_c |-> "Catm",
                 ambient_rh |-> "rh",
                 b0 |-> "b0",
                 b1 |-> "b1",
                 gbw |-> "gbw",
                 leaf_temperature |-> "leaf_temperature",
                 ambient_air_temperature |-> "temp"],
     outputs |-> [leaf_stomatal_conductance_op |-> "leaf_stomatal_conductance"]]

ball_berry_get_inputs ==
    <<"net_assimilation_rate", "Catm", "rh", "b0", "b1", "gbw",
      "leaf_temperature", "temp">>

ball_berry_get_outputs == <<"leaf_stomatal_conductance">>

\* ball_berry_gs (ball_berry_gs.h): a function of its eight arguments and of
\* nothing else; a fixed weighted sum stands in for the formula.
ball_berry_gs(assimilation, ambient_c, ambient_rh, b0, b1, gbw, leaf_temperature, ambient_air_temperature) ==
    RAdd(RAdd(RAdd(RMul(R(2), assimilation), RMul(R(3), ambient_c)),
              RAdd(RMul(R(5), ambient_rh), RMul(R(7), b0))),
         RAdd(RAdd(RMul(R(11), b1), RMul(R(13), gbw)),
              RAdd(RMul(R(17), leaf_temperature), RMul(R(19), ambient_air_temperature))))

ball_berry_reads ==
    {"net_assimilation_rate", "ambient_c", "ambient_rh", "b0", "b1", "gbw",
     "leaf_temperature", "ambient_air_temperature"}

ball_berry_do_operation(b, q) ==
    <<[op |-> "leaf_stomatal_conductance_op",
       value |-> ball_berry_gs(q[b.net_assimilation_rate], q[b.ambient_c],
                               q[b.ambient_rh], q[b.b0], q[b.b1], q[b.gbw],
                               q[b.leaf_temperature],
                               q[b.ambient_air_temperature])]>>

\* ---- penman_monteith_leaf_temperature (penman_monteith_leaf_temperature.hpp) ----
penman_monteith_leaf_temperature_constructor ==
    [inputs |-> [slope_water_vapor_ip |-> "slope_water_vapor",
                 psychrometric_parameter_ip |-> "psychrometric_parameter",
                 latent_heat_vaporization_of_water_ip |->
                     "latent_heat_vaporization_of_water",
                 leaf_boundary_layer_conductance_ip |->
                     "leaf_boundary_layer_conductance",
                 leaf_stomatal_conductance_ip |-> "leaf_stomatal_conductance",
                 leaf_net_irradiance_ip |-> "leaf_net_irradiance",
                 vapor_density_deficit_ip |-> "vapor_density_deficit",
                 temp_ip |-> "temp"],
     outputs |-> [leaf_temperature_op |-> "leaf_temperature"]]

\* A get_inputs that does not declare the stomatal conductance.
penman_monteith_leaf_temperature_get_inputs_without_conductance ==
    <<"slope_water_vapor", "psychrometric_parameter",
      "latent_heat_vaporization_of_water", "leaf_boundary_layer_conductance",
      "leaf_net_irradiance", "vapor_density_deficit", "temp">>

penman_monteith_leaf_temperature_get_inputs ==
    <<"slope_water_vapor", "psychrometric_parameter",
      "latent_heat_vaporization_of_water", "leaf_boundary_layer_conductance",
      "leaf_stomatal_conductance", "leaf_net_irradiance",
      "vapor_density_deficit", "temp">>

penman_monteith_leaf_temperature_get_outputs == <<"leaf_temperature">>

penman_monteith_leaf_temperature_reads ==
    {"slope_water_vapor_ip", "psychrometric_parameter_ip",
     "latent_heat_vaporization_of_water_ip",
     "leaf_boundary_layer_conductance_ip", "temp_ip",
     "leaf_stomatal_conductance_ip", "leaf_net_irradiance_ip",
     "vapor_density_deficit_ip"}

\* 24.39e-3 m^3 / mol
volume_of_one_mole_of_air == <<2439, 100000>>

penman_monteith_leaf_temperature_do_operation_accumulates(b, q) ==
    <<[op |-> "leaf_temperature_op",
       value |-> RAdd(q["leaf_temperature"], q[b.temp_ip])]>>

penman_monteith_leaf_temperature_do_operation(b, q) ==
    LET slope_water_vapor == q[b.slope_water_vapor_ip]
        psychr_parameter == q[b.psychrometric_parameter_ip]
        LHV == q[b.latent_heat_vaporization_of_water_ip]
        ga == q[b.leaf_boundary_layer_conductance_ip]
        air_temperature == q[b.temp_ip]
        leaf_stomatal_conductance == q[b.leaf_stomatal_conductance_ip]
        leaf_net_irradiance == q[b.leaf_net_irradiance_ip]
        vapor_density_deficit == q[b.vapor_density_deficit_ip]
        gc == RMul(RMul(leaf_stomatal_conductance, <<1, 1000>>),
                   volume_of_one_mole_of_air)
        delta_t ==
            RDiv(RSub(RMul(leaf_net_irradiance,
                           RAdd(RDiv(R(1), ga), RDiv(R(1), gc))),
                      RMul(LHV, vapor_density_deficit)),
                 RMul(LHV,
                      RAdd(slope_water_vapor,
                           RMul(psychr_parameter, RAdd(R(1), RDiv(ga, gc))))))
        leaf_temperature == RAdd(air_temperature, delta_t)
    IN  <<[op |-> "leaf_temperature_op", value |-> leaf_temperature]>>

\* ---- senescence_coefficient_logistic (senescence_coefficient_logistic.h) ----
senescence_coefficient_logistic_constructor ==
    [inputs |-> [DVI |-> "DVI",
                 alphaSeneStem |-> "alphaSeneStem",
                 alphaSeneLeaf |-> "alphaSeneLeaf",
                 betaSeneStem |-> "betaSeneStem",
                 betaSeneLeaf |-> "betaSeneLeaf",
                 rateSeneLeaf |-> "rateSeneLeaf",
                 rateSeneStem |-> "rateSeneStem",
                 alphaSeneRoot |-> "alphaSeneRoot",
                 alphaSeneRhizome |-> "alphaSeneRhizome",
                 betaSeneRoot |-> "betaSeneRoot",
                 betaSeneRhizome |-> "betaSeneRhizome",
                 rateSeneRoot |-> "rateSeneRoot",
                 rateSeneRhizome |-> "rateSeneRhizome"],
     outputs |-> [kSeneStem_op |-> "kSeneStem",
                  kSeneLeaf_op |-> "kSeneLeaf",
                  kSeneRoot_op |-> "kSeneRoot",
                  kSeneRhizome_op |-> "kSeneRhizome"]]

senescence_coefficient_logistic_get_inputs ==
    <<"DVI", "alphaSeneStem", "alphaSeneLeaf", "betaSeneStem", "betaSeneLeaf",
      "rateSeneLeaf", "rateSeneStem", "alphaSeneRoot", "alphaSeneRhizome",
      "betaSeneRoot", "betaSeneRhizome", "rateSeneRoot", "rateSeneRhizome">>

senescence_coefficient_logistic_get_outputs ==
    <<"kSeneStem", "kSeneLeaf", "kSeneRoot", "kSeneRhizome">>

senescence_coefficient_logistic_reads ==
    {"DVI", "alphaSeneStem", "alphaSeneLeaf", "betaSeneStem", "betaSeneLeaf",
     "rateSeneLeaf", "rateSeneStem", "alphaSeneRoot", "alphaSeneRhizome",
     "betaSeneRoot", "betaSeneRhizome", "rateSeneRoot", "rateSeneRhizome"}

ksene(rate, alpha, beta, DVI) ==
    RDiv(rate, RAdd(R(1), Exp(RAdd(alpha, RMul(beta, DVI)))))

senescence_coefficient_logistic_do_operation_skips_rhizome(b, q) ==
    <<[op |-> "kSeneStem_op",
       value |-> ksene(q[b.rateSeneStem], q[b.alphaSeneStem], q[b.betaSeneStem], q[b.DVI])],
      [op |-> "kSeneLeaf_op",
       value |-> ksene(q[b.rateSeneLeaf], q[b.alphaSeneLeaf], q[b.betaSeneLeaf], q[b.DVI])],
      [op |-> "kSeneRoot_op",
       value |-> ksene(q[b.rateSeneRoot], q[b.alphaSeneRoot], q[b.betaSeneRoot], q[b.DVI])]>>

senescence_coefficient_logistic_do_operation(b, q) ==
    LET kSeneStem == ksene(q[b.rateSeneStem], q[b.alphaSeneStem],
                           q[b.betaSeneStem], q[b.DVI])
        kSeneLeaf == ksene(q[b.rateSeneLeaf], q[b.alphaSeneLeaf],
                           q[b.betaSeneLeaf], q[b.DVI])
        kSeneRoot == ksene(q[b.rateSeneRoot], q[b.alphaSeneRoot],
                           q[b.betaSeneRoot], q[b.DVI])
        kSeneRhizome == ksene(q[b.rateSeneRhizome], q[b.alphaSeneRhizome],
                              q[b.betaSeneRhizome], q[b.DVI])
    IN  <<[op |-> "kSeneStem_op", value |-> kSeneStem],
          [op |-> "kSeneLeaf_op", value |-> kSeneLeaf],
          [op |-> "kSeneRoot_op", value |-> kSeneRoot],
          [op |-> "kSeneRhizome_op", value |-> kSeneRhizome]>>

\* ---- thermal_time_linear (multilayer_canopy_properties.h, lines 178-283) ----
thermal_time_linear_constructor ==
    [inputs |-> [temp |-> "temp", tbase |-> "tbase"],
     outputs |-> [TTc_op |-> "TTc"]]

thermal_time_linear_get_inputs == <<"temp", "tbase">>

thermal_time_linear_get_outputs == <<"TTc">>

thermal_time_linear_reads == {"temp", "tbase"}

thermal_time_linear_do_operation_unclamped(b, q) ==
    <<[op |-> "TTc_op", value |-> RDiv(RSub(q[b.temp], q[b.tbase]), R(24))]>>

thermal_time_linear_do_operation(b, q) ==
    LET temp == q[b.temp]
        tbase == q[b.tbase]
        rate_per_day == IF RLeq(temp, tbase) THEN R(0) ELSE RSub(temp, tbase)
        rate_per_hour == RDiv(rate_per_day, R(24))
    IN  <<[op |-> "TTc_op", value |-> rate_per_hour]>>


\* ---- the library as a whole ----
Modules ==
    {"ball_berry", "penman_monteith_leaf_temperature",
     "senescence_coefficient_logistic", "thermal_time_linear"}

\* thermal_time_linear derives from DerivModule, the others are steady modules.
IsDerivModule(m) == m = "thermal_time_linear"

Constructor(m) ==
    CASE m = "ball_berry" -> ball_berry_constructor
      [] m = "penman_monteith_leaf_temperature" ->
             penman_monteith_leaf_temperature_constructor
      [] m = "senescence_coefficient_logistic" ->
             senescence_coefficient_logistic_constructor
      [] m = "thermal_time_linear" -> thermal_time_linear_constructor

get_inputs(m) ==
    CASE m = "ball_berry" -> ball_berry_get_inputs
      [] m = "penman_monteith_leaf_temperature" ->
             penman_monteith_leaf_temperature_get_inputs
      [] m = "senescence_coefficient_logistic" ->
             senescence_coefficient_logistic_get_inputs
      [] m = "thermal_time_linear" -> thermal_time_linear_get_inputs

get_outputs(m) ==
    CASE m = "ball_berry" -> ball_berry_get_outputs
      [] m = "penman_monteith_leaf_temperature" ->
             penman_monteith_leaf_temperature_get_outputs
      [] m = "senescence_coefficient_logistic" ->
             senescence_coefficient_logistic_get_outputs
      [] m = "thermal_time_linear" -> thermal_time_linear_get_outputs

\* The members do_operation dereferences.
ReadMembers(m) ==
    CASE m = "ball_berry" -> ball_berry_reads
      [] m = "penman_monteith_leaf_temperature" ->
             penman_monteith_leaf_temperature_reads
      [] m = "senescence_coefficient_logistic" ->
             senescence_coefficient_logistic_reads
      [] m = "thermal_time_linear" -> thermal_time_linear_reads

\* The update() calls do_operation makes, in order.
do_operation(m, b, q) ==
    CASE m = "ball_berry" -> ball_berry_do_operation(b, q)
      [] m = "penman_monteith_leaf_temperature" ->
             penman_monteith_leaf_temperature_do_operation(b, q)
      [] m = "senescence_coefficient_logistic" ->
             senescence_coefficient_logistic_do_operation(b, q)
      [] m = "thermal_time_linear" -> thermal_time_linear_do_operation(b, q)

\* update(pointer, value): the bound slot is overwritten.
update(store, name, value) == [store EXCEPT ![name] = value]

RECURSIVE ApplyUpdates(_, _, _)
ApplyUpdates(store, outs, ups) ==
    IF ups = <<>> THEN store
    ELSE ApplyUpdates(update(store, outs[Head(ups).op], Head(ups).value),
                      outs, Tail(ups))

\* Every quantity of the store: the inputs and outputs of the four modules and
\* the state variable TTc.
AllQuantities ==
    UNION {SeqToSet(get_inputs(m)) \cup SeqToSet(get_outputs(m)) : m \in Modules}

\* The state variables, each with a slot in the derivative store.
StateVariables == {"TTc"}

\* Values written to the stores from outside the module.
Values == {R(-1), R(0), R(1), R(2)}

\* Air and base temperatures, degrees C.
Temperatures == {R(-5), R(0), R(5), R(10), R(15)}

\* A quantity that is neither input nor output of module m.
Bystander(m) == IF m = "senescence_coefficient_logistic" THEN "rh" ELSE "DVI"

\* The quantities written from outside while module m is under evaluation.
Settable(m) ==
    SeqToSet(get_inputs(m)) \cup (SeqToSet(get_outputs(m)) \cap AllQuantities)
        \cup {Bystander(m)}

NotBound == [inputs |-> <<>>, outputs |-> <<>>]

ModulesAtRest ==
    /\ focus = "none"
    /\ constructed = FALSE
    /\ bound = NotBound
    /\ quantities = <<>>
    /\ derivatives = <<>>
    /\ reads = {}
    /\ writes = {}
    /\ evals = <<>>
    /\ nsets = 0

\* The store a module of this kind writes to.
OutputStore(m) == IF IsDerivModule(m) THEN derivatives ELSE quantities

\* The module's constructor: every member is bound to its quantity by name
\* (get_input, get_ip and get_op fail on a name the store does not hold).
Construct ==
    /\ focus \in Modules
    /\ ~constructed
    /\ \A f \in DOMAIN Constructor(focus).inputs :
          Constructor(focus).inputs[f] \in DOMAIN quantities
    /\ \A f \in DOMAIN Constructor(focus).outputs :
          Constructor(focus).outputs[f] \in DOMAIN OutputStore(focus)
    /\ bound' = Constructor(focus)
    /\ constructed' = TRUE
    /\ UNCHANGED <<focus, quantities, derivatives, reads, writes, evals, nsets>>

\* Another part of the program writes a quantity.
SetQuantity ==
    /\ constructed
    /\ nsets < MaxSets
    /\ \E q \in Settable(focus), v \in Values :
          quantities' = [quantities EXCEPT ![q] = v]
    /\ nsets' = nsets + 1
    /\ UNCHANGED <<focus, constructed, bound, derivatives, reads, writes, evals>>

\* Another part of the program writes a slot of the derivative store.
SetDerivative ==
    /\ constructed
    /\ IsDerivModule(focus)
    /\ nsets < MaxSets
    /\ \E q \in DOMAIN derivatives, v \in Values :
          derivatives' = [derivatives EXCEPT ![q] = v]
    /\ nsets' = nsets + 1
    /\ UNCHANGED <<focus, constructed, bound, quantities, reads, writes, evals>>

\* One evaluation of the module: do_operation().
Evaluate ==
    /\ constructed
    /\ Len(evals) < MaxEvals
    /\ LET ups == do_operation(focus, bound.inputs, quantities)
           out == ApplyUpdates(OutputStore(focus), bound.outputs, ups)
       IN  /\ IF IsDerivModule(focus)
              THEN derivatives' = out /\ UNCHANGED quantities
              ELSE quantities' = out /\ UNCHANGED derivatives
           /\ reads' = {bound.inputs[f] : f \in ReadMembers(focus)}
           /\ writes' = {bound.outputs[ups[i].op] : i \in DOMAIN ups}
           /\ evals' = Append(evals,
                  [in |-> [n \in SeqToSet(get_inputs(focus)) |-> quantities[n]],
                   out |-> [n \in SeqToSet(get_outputs(focus)) |-> out[n]]])
    /\ UNCHANGED <<focus, constructed, bound, nsets>>


(***************************************************************************)
(* MULTILAYER CANOPY PROPERTIES                                            *)
(***************************************************************************)

\* Lines 68-93: the constructor's member initializers, in order.
multilayer_canopy_properties_initializers_shaded_fraction_mistyped ==
    <<[member |-> "par_incident_direct", kind |-> "input", name |-> "par_incident_direct"],
      [member |-> "par_incident_diffuse", kind |-> "input", name |-> "par_incident_diffuse"],
      [member |-> "absorptivity_par", kind |-> "input", name |-> "absorptivity_par"],
      [member |-> "lai", kind |-> "input", name |-> "lai"],
      [member |-> "cosine_zenith_angle", kind |-> "input", name |-> "cosine_zenith_angle"],
      [member |-> "kd", kind |-> "input", name |-> "kd"],
      [member |-> "chil", kind |-> "input", name |-> "chil"],
      [member |-> "heightf", kind |-> "input", name |-> "heightf"],
      [member |-> "rh", kind |-> "input", name |-> "rh"],
      [member |-> "windspeed", kind |-> "input", name |-> "windspeed"],
      [member |-> "LeafN", kind |-> "input", name |-> "LeafN"],
      [member |-> "kpLN", kind |-> "input", name |-> "kpLN"],
      [member |-> "lnfun", kind |-> "input", name |-> "lnfun"],
      [member |-> "par_energy_content", kind |-> "input", name |-> "par_energy_content"],
      [member |-> "sunlit_incident_par_ops", kind |-> "multilayer_op", name |-> "sunlit_incident_par"],
      [member |-> "sunlit_fraction_ops", kind |-> "multilayer_op", name |-> "sunlit_fraction"],
      [member |-> "shaded_incident_par_ops", kind |-> "multilayer_op", name |-> "shaded_incident_par"],
      [member |-> "shaded_fraction_ops", kind |-> "multilayer_op", name |-> "sunlit_fraction"],
      [member |-> "incident_scattered_par_ops", kind |-> "multilayer_op", name |-> "incident_scattered_par"],
      [member |-> "incident_average_par_ops", kind |-> "multilayer_op", name |-> "incident_average_par"],
      [member |-> "height_ops", kind |-> "multilayer_op", name |-> "height"],
      [member |-> "rh_ops", kind |-> "multilayer_op", name |-> "rh"],
      [member |-> "windspeed_ops", kind |-> "multilayer_op", name |-> "windspeed"],
      [member |-> "LeafN_ops", kind |-> "multilayer_op", name |-> "LeafN"]>>

multilayer_canopy_properties_initializers ==
    <<[member |-> "par_incident_direct", kind |-> "input", name |-> "par_incident_direct"],
      [member |-> "par_incident_diffuse", kind |-> "input", name |-> "par_incident_diffuse"],
      [member |-> "absorptivity_par", kind |-> "input", name |-> "absorptivity_par"],
      [member |-> "lai", kind |-> "input", name |-> "lai"],
      [member |-> "cosine_zenith_angle", kind |-> "input", name |-> "cosine_zenith_angle"],
      [member |-> "kd", kind |-> "input", name |-> "kd"],
      [member |-> "chil", kind |-> "input", name |-> "chil"],
      [member |-> "heightf", kind |-> "input", name |-> "heightf"],
      [member |-> "rh", kind |-> "input", name |-> "rh"],
      [member |-> "windspeed", kind |-> "input", name |-> "windspeed"],
      [member |-> "LeafN", kind |-> "input", name |-> "LeafN"],
      [member |-> "kpLN", kind |-> "input", name |-> "kpLN"],
      [member |-> "lnfun", kind |-> "input", name |-> "lnfun"],
      [member |-> "par_energy_content", kind |-> "input", name |-> "par_energy_content"],
      [member |-> "sunlit_incident_par_ops", kind |-> "multilayer_op", name |-> "sunlit_incident_par"],
      [member |-> "sunlit_fraction_ops", kind |-> "multilayer_op", name |-> "sunlit_fraction"],
      [member |-> "shaded_incident_par_ops", kind |-> "multilayer_op", name |-> "shaded_incident_par"],
      [member |-> "shaded_fraction_ops", kind |-> "multilayer_op", name |-> "shaded_fraction"],
      [member |-> "incident_scattered_par_ops", kind |-> "multilayer_op", name |-> "incident_scattered_par"],
      [member |-> "incident_average_par_ops", kind |-> "multilayer_op", name |-> "incident_average_par"],
      [member |-> "height_ops", kind |-> "multilayer_op", name |-> "height"],
      [member |-> "rh_ops", kind |-> "multilayer_op", name |-> "rh"],
      [member |-> "windspeed_ops", kind |-> "multilayer_op", name |-> "windspeed"],
      [member |-> "LeafN_ops", kind |-> "multilayer_op", name |-> "LeafN"]>>

\* The quantity naming convention: <name>_layer_<index>, index zero-based and
\* not padded.
add_layer_suffix(name, i) == name \o "_layer_" \o ToString(i)

\* get_multilayer_op(output_quantities, nlayers, name): one slot per layer.
get_multilayer_op(nlayers, name) ==
    [i \in 1..nlayers |-> add_layer_suffix(name, i - 1)]

\* define_leaf_classes(), define_multiclass_multilayer_outputs() and
\* define_pure_multilayer_outputs() of the canopy properties module.
define_leaf_classes == <<"sunlit", "shaded">>

define_multiclass_multilayer_outputs == <<"incident_par", "fraction">>

define_pure_multilayer_outputs ==
    <<"incident_scattered_par", "incident_average_par", "height", "rh",
      "windspeed", "LeafN">>

\* get_outputs(nlayers): every leaf class and layer of each multiclass base
\* name, every layer of each pure multilayer base name.
multilayer_canopy_properties_get_outputs(nlayers) ==
    {add_layer_suffix(c \o "_" \o b, k) :
        c \in SeqToSet(define_leaf_classes),
        b \in SeqToSet(define_multiclass_multilayer_outputs),
        k \in 0..(nlayers - 1)}
    \cup
    {add_layer_suffix(b, k) :
        b \in SeqToSet(define_pure_multilayer_outputs), k \in 0..(nlayers - 1)}

MultilayerAtRest ==
    /\ ml_nlayers = 0
    /\ ml_store = {}
    /\ ml_step = 0
    /\ ml_inputs = <<>>
    /\ ml_outputs = <<>>
    /\ ml_error = "none"

\* One member initializer of the constructor.  A name the store does not hold
\* ends the construction with a failure.
InitializeMember ==
    /\ ml_nlayers > 0
    /\ ml_error = "none"
    /\ ml_step < Len(multilayer_canopy_properties_initializers)
    /\ LET init == multilayer_canopy_properties_initializers[ml_step + 1]
           names == get_multilayer_op(ml_nlayers, init.name)
       IN  IF init.kind = "input"
           THEN /\ ml_inputs' = Append(ml_inputs, init.name)
                /\ ml_step' = ml_step + 1
                /\ UNCHANGED <<ml_outputs, ml_error>>
           ELSE IF \A i \in DOMAIN names : names[i] \in ml_store
           THEN /\ ml_outputs' = Append(ml_outputs, names)
                /\ ml_step' = ml_step + 1
                /\ UNCHANGED <<ml_inputs, ml_error>>
           ELSE /\ ml_error' = "out_of_range"
                /\ UNCHANGED <<ml_inputs, ml_outputs, ml_step>>
    /\ UNCHANGED <<ml_nlayers, ml_store>>


(***************************************************************************)
(* DYNAMICAL SYSTEM: CONSTRUCTION OF THE STEADY EVALUATION ORDER           *)
(***************************************************************************)

\* Steady modules that stand for the rest of the library: each produces one
\* quantity the modules above read.
StubModules ==
    {"leaf_temperature_from_air", "fixed_stomatal_conductance",
     "assimilation_from_conductance", "vapor_density_deficit_from_leaf"}

SteadyLibrary ==
    {"ball_berry", "penman_monteith_leaf_temperature"} \cup StubModules

ModuleInputs(m) ==
    CASE m = "leaf_temperature_from_air" -> {"temp"}
      [] m = "fixed_stomatal_conductance" -> {"b0"}
      [] m = "assimilation_from_conductance" ->
             {"leaf_stomatal_conductance", "leaf_temperature"}
      [] m = "vapor_density_deficit_from_leaf" -> {"leaf_temperature", "rh"}
      [] OTHER -> SeqToSet(get_inputs(m))

ModuleOutputs(m) ==
    CASE m = "leaf_temperature_from_air" -> {"leaf_temperature"}
      [] m = "fixed_stomatal_conductance" -> {"leaf_stomatal_conductance"}
      [] m = "assimilation_from_conductance" -> {"net_assimilation_rate"}
      [] m = "vapor_density_deficit_from_leaf" -> {"vapor_density_deficit"}
      [] OTHER -> SeqToSet(get_outputs(m))

\* The quantities the modules of list ms produce.
Produced(ms) == UNION {ModuleOutputs(ms[i]) : i \in DOMAIN ms}

\* Module m may run once the modules in `placed` have: every input of m that
\* some module of the system produces is produced by a placed module.
Ready(m, placed, ms) ==
    \A x \in ModuleInputs(m) \cap Produced(ms) :
        \E p \in placed : x \in ModuleOutputs(p)

\* The next module of the topological sort: the first module of the list, in
\* the order given, that is not placed yet and is ready (0 when there is none).
NextModuleIgnoringInputs(ms, order) ==
    LET placed == SeqToSet(order)
        cand == {i \in DOMAIN ms : ms[i] \notin placed}
    IN  IF cand = {} THEN 0 ELSE CHOOSE i \in cand : \A j \in cand : i <= j

NextModule(ms, order) ==
    LET placed == SeqToSet(order)
        cand == {i \in DOMAIN ms : ms[i] \notin placed /\ Ready(ms[i], placed, ms)}
    IN  IF cand = {} THEN 0 ELSE CHOOSE i \in cand : \A j \in cand : i <= j

\* ---- one derivative evaluation: definitions ----

\* The derivative modules of the system: thermal_time_linear and a module
\* that stands for the other derivative modules of the library.
DerivativeModules == {"thermal_time_linear", "development_index_rate"}

DerivativeOutput(m) ==
    IF m = "thermal_time_linear" THEN thermal_time_linear_get_outputs[1]
    ELSE "DVI"

\* The rate a derivative module writes, computed from the store.
DerivativeRate(m, store) ==
    IF m = "thermal_time_linear"
    THEN thermal_time_linear_do_operation(
             thermal_time_linear_constructor.inputs, store)[1].value
    ELSE R(1)

\* The slots of the store an evaluation binds or reads.
StoreNames == {"time", "temp", "tbase", "TTc", "DVI"}

\* The two orders of the state vector.
StateVariableOrders == {<<"TTc", "DVI">>, <<"DVI", "TTc">>}

\* The state vectors handed to an evaluation.
StateVectors == {<<R(0), R(1)>>, <<R(1), R(0)>>}

\* The air temperature driver, by time point.
DriverTemp == <<R(15), R(5), R(10)>>

IndexOf(sq, x) == CHOOSE i \in DOMAIN sq : sq[i] = x

\* The phase that follows once nrun steady modules have run.
PhaseAfterSteadyUnordered(nrun, order) == "derivative"

PhaseAfterSteady(nrun, order) ==
    IF nrun = Len(order) THEN "derivative" ELSE "steady"

EvaluationAtRest ==
    /\ ev_pc = "none"
    /\ ev_log = <<>>
    /\ ev_store = <<>>
    /\ ev_written = {}
    /\ ev_derivs = <<>>
    /\ ev_result = <<>>
    /\ ev_passes = 0

SystemAtRest ==
    /\ sys_modules = <<>>
    /\ sys_parameters = {}
    /\ sys_phase = "none"
    /\ sys_order = <<>>
    /\ sys_error = "none"
    /\ EvaluationAtRest
    /\ ev_state_variables = <<>>

\* Construction, first part: every input of every module must be a parameter,
\* a state variable or the output of a module of the system.
CheckInputs ==
    /\ sys_phase = "new"
    /\ IF \A i \in DOMAIN sys_modules :
            ModuleInputs(sys_modules[i]) \subseteq
                sys_parameters \cup Produced(sys_modules)
       THEN sys_phase' = "sorting" /\ UNCHANGED sys_error
       ELSE sys_phase' = "failed" /\ sys_error' = "MissingInput"
    /\ UNCHANGED <<sys_modules, sys_parameters, sys_order, evVars>>

\* Construction, second part: one step of the topological sort.
SortStep ==
    /\ sys_phase = "sorting"
    /\ Len(sys_order) < Len(sys_modules)
    /\ LET i == NextModule(sys_modules, sys_order)
       IN  IF i = 0
           THEN /\ sys_phase' = "failed"
                /\ sys_error' = "CyclicDependency"
                /\ UNCHANGED sys_order
           ELSE /\ sys_order' = Append(sys_order, sys_modules[i])
                /\ UNCHANGED <<sys_phase, sys_error>>
    /\ UNCHANGED <<sys_modules, sys_parameters, evVars>>

\* Construction ends: the order is fixed.
SortDone ==
    /\ sys_phase = "sorting"
    /\ Len(sys_order) = Len(sys_modules)
    /\ sys_phase' = "ready"
    /\ UNCHANGED <<sys_modules, sys_parameters, sys_order, sys_error, evVars>>

\* ---- derivative evaluation ----

\* Bind: the state vector and the time are written to the store; the drivers
\* take their value for that time.
Bind ==
    /\ sys_phase = "ready"
    /\ ev_pc \in {"none", "done"}
    /\ ev_passes < MaxPasses
    /\ \E x \in StateVectors, t \in DOMAIN DriverTemp :
          ev_store' = [n \in StoreNames |->
                          IF n = "time" THEN R(t - 1)
                          ELSE IF n = "temp" THEN DriverTemp[t]
                          ELSE IF n = "tbase" THEN R(10)
                          ELSE x[IndexOf(ev_state_variables, n)]]
    /\ ev_log' = <<"bind">>
    /\ ev_written' = {}
    /\ ev_derivs' = [n \in SeqToSet(ev_state_variables) |-> R(0)]
    /\ ev_result' = <<>>
    /\ ev_pc' = PhaseAfterSteady(0, sys_order)
    /\ UNCHANGED <<sys_modules, sys_parameters, sys_phase, sys_order, sys_error,
                   ev_state_variables, ev_passes>>

\* Steady phase: the next steady module of the fixed order is evaluated.
RunSteady ==
    /\ ev_pc = "steady"
    /\ LET nrun == Len(ev_log) - 1
           m == sys_order[nrun + 1]
       IN  /\ ev_log' = Append(ev_log, m)
           /\ ev_written' = ev_written \cup ModuleOutputs(m)
           /\ ev_pc' = PhaseAfterSteady(nrun + 1, sys_order)
    /\ UNCHANGED <<sys_modules, sys_parameters, sys_phase, sys_order, sys_error,
                   ev_state_variables, ev_store, ev_derivs, ev_result, ev_passes>>

\* Derivative phase: a derivative module that has not run in this pass is
\* evaluated and its rate written to the derivative store.
RunDerivative ==
    /\ ev_pc = "derivative"
    /\ \E m \in DerivativeModules \ SeqToSet(ev_log) :
          /\ ev_derivs' = [ev_derivs EXCEPT ![DerivativeOutput(m)] =
                                                DerivativeRate(m, ev_store)]
          /\ ev_log' = Append(ev_log, m)
          /\ ev_pc' = IF DerivativeModules \subseteq SeqToSet(ev_log) \cup {m}
                      THEN "collect" ELSE "derivative"
    /\ UNCHANGED <<sys_modules, sys_parameters, sys_phase, sys_order, sys_error,
                   ev_state_variables, ev_store, ev_written, ev_result, ev_passes>>

\* Collect: every state variable's derivative is read into the result vector.
Collect ==
    /\ ev_pc = "collect"
    /\ ev_result' = [i \in DOMAIN ev_state_variables |->
                         ev_derivs[ev_state_variables[i]]]
    /\ ev_log' = Append(ev_log, "collect")
    /\ ev_pc' = "done"
    /\ ev_passes' = ev_passes + 1
    /\ UNCHANGED <<sys_modules, sys_parameters, sys_phase, sys_order, sys_error,
                   ev_state_variables, ev_store, ev_written, ev_derivs>>


(***************************************************************************)
(* SPECIFICATIONS                                                          *)
(***************************************************************************)

IntegratorAtRest ==
    /\ pc = "idle"
    /\ integrate_method_has_been_called = FALSE
    /\ check_adaptive_compatible = FALSE
    /\ max_steps = 1
    /\ adaptive_compatible = TRUE
    /\ need_steps = 0
    /\ ncalls = 0
    /\ ncalls_at_entry = 0
    /\ calls = <<>>
    /\ steps_done = 0
    /\ pending = NoValue
    /\ ret = NoValue
    /\ ncompleted = 0

FactoryInit ==
    /\ IntegratorAtRest
    /\ FactoryAtRest
    /\ ModulesAtRest
    /\ MultilayerAtRest
    /\ SystemAtRest

FactoryNext ==
    \/ FactoryRequest /\ UNCHANGED notFacVars
    \/ GetSolvers /\ UNCHANGED notFacVars

SpecFactory == FactoryInit /\ [][FactoryNext]_vars

IntegratorInit ==
    /\ FactoryAtRest
    /\ ModulesAtRest
    /\ MultilayerAtRest
    /\ SystemAtRest
    /\ pc = "idle"
    /\ integrate_method_has_been_called = FALSE
    /\ check_adaptive_compatible \in BOOLEAN
    /\ max_steps \in 1..MaxStepsLimit
    /\ adaptive_compatible \in BOOLEAN
    /\ need_steps \in 0..MaxNeedSteps
    /\ ncalls = 0
    /\ ncalls_at_entry = 0
    /\ calls = <<>>
    /\ steps_done = 0
    /\ pending = NoValue
    /\ ret = NoValue
    /\ ncompleted = 0

IntegratorNext ==
    \/ IntegrateEnter /\ UNCHANGED notIntVars
    \/ HandleAdaptiveIncompatibility /\ UNCHANGED notIntVars
    \/ ResetNcalls /\ UNCHANGED notIntVars
    \/ DoIntegrateStart /\ UNCHANGED notIntVars
    \/ DoIntegrateStep /\ UNCHANGED notIntVars
    \/ DoIntegrateFinish /\ UNCHANGED notIntVars
    \/ DoIntegrateStepLimit /\ UNCHANGED notIntVars
    \/ IntegrateReturn /\ UNCHANGED notIntVars
    \/ EvaluateOutside /\ UNCHANGED notIntVars
    \/ NewSolver /\ UNCHANGED notIntVars

SpecIntegrator == IntegratorInit /\ [][IntegratorNext]_vars

ModulesInit ==
    /\ IntegratorAtRest
    /\ FactoryAtRest
    /\ MultilayerAtRest
    /\ SystemAtRest
    /\ focus \in Modules
    /\ constructed = FALSE
    /\ bound = NotBound
    /\ IF focus = "thermal_time_linear"
       THEN \E t \in Temperatures, tb \in Temperatures :
               quantities = [q \in AllQuantities \cup StateVariables |->
                                IF q = "temp" THEN t
                                ELSE IF q = "tbase" THEN tb ELSE R(1)]
       ELSE quantities = [q \in AllQuantities \cup StateVariables |-> R(1)]
    /\ derivatives = [q \in StateVariables |-> R(0)]
    /\ reads = {}
    /\ writes = {}
    /\ evals = <<>>
    /\ nsets = 0

ModulesNext ==
    \/ Construct /\ UNCHANGED notModVars
    \/ SetQuantity /\ UNCHANGED notModVars
    \/ SetDerivative /\ UNCHANGED notModVars
    \/ Evaluate /\ UNCHANGED notModVars

SpecModules == ModulesInit /\ [][ModulesNext]_vars

\* The constructor is entered with nlayers > 0 and an output store built for
\* that many layers or for one layer fewer.
MultilayerInit ==
    /\ IntegratorAtRest
    /\ FactoryAtRest
    /\ ModulesAtRest
    /\ SystemAtRest
    /\ ml_nlayers \in 1..MaxLayers
    /\ \E n \in {ml_nlayers - 1, ml_nlayers} : ml_store = multilayer_canopy_properties_get_outputs(n)
    /\ ml_step = 0
    /\ ml_inputs = <<>>
    /\ ml_outputs = <<>>
    /\ ml_error = "none"

MultilayerNext ==
    \/ InitializeMember /\ UNCHANGED notMlVars

SpecMultilayer == MultilayerInit /\ [][MultilayerNext]_vars

\* Lists of distinct library modules, no quantity produced by two of them.
ModuleLists ==
    UNION {{ms \in [1..n -> SteadyLibrary] :
               /\ \A i, j \in 1..n : i # j => ms[i] # ms[j]
               /\ \A i, j \in 1..n :
                     i # j => ModuleOutputs(ms[i]) \cap ModuleOutputs(ms[j]) = {}} :
           n \in 1..MaxSystemModules}

\* Every quantity some library module reads.
LibraryInputs == UNION {ModuleInputs(m) : m \in SteadyLibrary}

\* The system is given a list of steady modules; every quantity the modules
\* do not produce is supplied as a parameter or state variable, except
\* possibly one.
SystemInit ==
    /\ IntegratorAtRest
    /\ FactoryAtRest
    /\ ModulesAtRest
    /\ MultilayerAtRest
    /\ sys_modules \in ModuleLists
    /\ \E missing \in {{}, {"temp"}, {"leaf_temperature"}} :
          sys_parameters = (LibraryInputs \ Produced(sys_modules)) \ missing
    /\ sys_phase = "new"
    /\ sys_order = <<>>
    /\ sys_error = "none"
    /\ EvaluationAtRest
    /\ ev_state_variables \in StateVariableOrders

SystemNext ==
    \/ CheckInputs /\ UNCHANGED notSysVars
    \/ SortStep /\ UNCHANGED notSysVars
    \/ SortDone /\ UNCHANGED notSysVars
    \/ Bind /\ UNCHANGED notSysVars
    \/ RunSteady /\ UNCHANGED notSysVars
    \/ RunDerivative /\ UNCHANGED notSysVars
    \/ Collect /\ UNCHANGED notSysVars

SpecSystem == SystemInit /\ [][SystemNext]_vars

(***************************************************************************)
(* CLAIMS                                                                  *)
(***************************************************************************)

Range(f) == {f[i] : i \in DOMAIN f}

InFallbackCase == check_adaptive_compatible /\ ~adaptive_compatible

\* C1: whenever integrate runs with check_adaptive_compatible set and the system
\* not adaptive compatible, the call never reaches reset_ncalls or do_integrate,
\* the counter still holds its entry value when handle_adaptive_incompatibility
\* is invoked (and is never lowered during the call), and the value returned is
\* exactly the value handle_adaptive_incompatibility produced.
C1_FallbackOnly ==
    InFallbackCase =>
        /\ pc \notin {"call_reset", "call_do_integrate", "stepping"}
        /\ "reset_ncalls" \notin Range(calls)
        /\ "do_integrate" \notin Range(calls)
        /\ (pc = "call_handle" => ncalls = ncalls_at_entry /\ calls = <<>>)
        /\ ncalls >= ncalls_at_entry
        /\ (pc \in {"return", "idle"} /\ integrate_method_has_been_called =>
               /\ calls = <<"handle_adaptive_incompatibility">>
               /\ pending.by = "handle_adaptive_incompatibility")
        /\ (pc = "idle" /\ ncompleted > 0 => ret = pending)

\* C1 witness: a second integrate call on an incompatible system has returned
\* the fallback's series, the counter having been non-zero at entry.
C1_Witness ==
    /\ InFallbackCase
    /\ pc = "idle"
    /\ ncompleted = 2
    /\ ncalls_at_entry > 0
    /\ ret.by = "handle_adaptive_incompatibility"
    /\ ret.kind = "series"
    /\ ret.len > 0

\* C2: whenever integrate runs with check_adaptive_compatible unset or the system
\* adaptive compatible, reset_ncalls is called exactly once and before
\* do_integrate starts (the counter is zero at that point), do_integrate runs
\* exactly once, and integrate returns what do_integrate produced.
C2_ResetThenIntegrate ==
    ~InFallbackCase =>
        /\ pc # "call_handle"
        /\ (pc = "call_reset" => calls = <<>>)
        /\ (pc = "call_do_integrate" => calls = <<"reset_ncalls">> /\ ncalls = 0)
        /\ (pc = "stepping" => calls = <<"reset_ncalls", "do_integrate">>)
        /\ (pc \in {"return", "idle"} /\ integrate_method_has_been_called =>
               /\ calls = <<"reset_ncalls", "do_integrate">>
               /\ pending.by = "do_integrate")
        /\ (pc = "idle" /\ ncompleted > 0 => ret = pending)

\* C2 witness: a second integrate call took the stepping branch with a non-zero
\* counter at entry and returned do_integrate's two-step series.
C2_Witness ==
    /\ ~InFallbackCase
    /\ pc = "idle"
    /\ ncompleted = 2
    /\ ncalls_at_entry > 0
    /\ ret = [kind |-> "series", by |-> "do_integrate", len |-> 2]

\* C3: for every requested name that is not a key of the registry, operator()
\* returns no solver, invokes no creator, fails with out_of_range whose message
\* contains the requested string in quotes, and leaves the registry as it was.
C3_UnknownSolver ==
    (nfcalls > 0 /\ fcall.name \notin DOMAIN CreatorsInit) =>
        /\ fresult.kind = "out_of_range"
        /\ Contains(fresult.message, "\"" \o fcall.name \o "\"")
        /\ Contains(fresult.message, "no system_solver with that name could be found")
        /\ created = <<>>
        /\ system_solver_creators = CreatorsInit

\* C3 witness: "DoesNotExist" was requested and refused.
C3_Witness ==
    /\ nfcalls > 0
    /\ fcall.name = "DoesNotExist"
    /\ fresult.kind = "out_of_range"
    /\ Contains(fresult.message, "\"DoesNotExist\"")

\* C4: for each of the six registered identifiers, operator() invokes exactly
\* the creator registered under it, once, with step_size, rel_error_tolerance,
\* abs_error_tolerance and max_steps unchanged and in that order.
C4_RegisteredCreator ==
    /\ DOMAIN system_solver_creators =
         {"Gro", "Gro_euler", "Gro_euler_odeint", "Gro_rsnbrk", "Gro_rk4",
          "Gro_rkck54"}
    /\ (nfcalls > 0 /\ fcall.name \in DOMAIN CreatorsInit) =>
        /\ Len(created) = 1
        /\ created[1].creator = CreatorsInit[fcall.name]
        /\ created[1].args = <<fcall.step_size, fcall.rel_error_tolerance,
                               fcall.abs_error_tolerance, fcall.max_steps>>
        /\ (fresult.kind = "solver" =>
               /\ fresult.type = CreatorsInit[fcall.name]
               /\ fresult.args = created[1].args)

\* C4 witness: Gro_rsnbrk was requested with differing tolerances and built.
C4_Witness ==
    /\ nfcalls > 0
    /\ fcall.name = "Gro_rsnbrk"
    /\ fcall.rel_error_tolerance # fcall.abs_error_tolerance
    /\ fresult.kind = "solver"
    /\ fresult.type = "boost_rsnbrk_system_solver"
    /\ Len(created) = 1

LastEval == evals[Len(evals)]

\* C5: thermal_time_linear writes TTc = 0 exactly when temp <= tbase and
\* TTc = (temp - tbase)/24 otherwise, so the rate written is never negative;
\* temp = 15, tbase = 10 gives 5/24 and temp = 5, tbase = 10 gives 0.
C5_ThermalRate ==
    (focus = "thermal_time_linear" /\ Len(evals) > 0) =>
        LET temp == LastEval.in["temp"]
            tbase == LastEval.in["tbase"]
            TTc == LastEval.out["TTc"]
        IN  /\ writes = {"TTc"}
            /\ (TTc = R(0)) <=> RLeq(temp, tbase)
            /\ ~RLeq(temp, tbase) => TTc = RDiv(RSub(temp, tbase), R(24))
            /\ RLeq(R(0), TTc)
            /\ (temp = R(15) /\ tbase = R(10)) => TTc = <<5, 24>>
            /\ (temp = R(5) /\ tbase = R(10)) => TTc = <<0, 1>>

\* C5 witness: with tbase = 10 the module wrote 5/24 at temp = 15 and then 0
\* after the temperature fell below the base.
C5_Witness ==
    /\ focus = "thermal_time_linear"
    /\ Len(evals) = 2
    /\ evals[1].in["temp"] = R(15)
    /\ evals[1].in["tbase"] = R(10)
    /\ evals[1].out["TTc"] = <<5, 24>>
    /\ evals[2].in["temp"] = R(-1)
    /\ evals[2].out["TTc"] = R(0)
    /\ derivatives["TTc"] = R(0)

CanopyConstructed ==
    /\ ml_error = "none"
    /\ ml_step = Len(multilayer_canopy_properties_initializers)

CanopyBoundNames == UNION {Range(ml_outputs[i]) : i \in DOMAIN ml_outputs}

LeafClassNames(b) ==
    {c \o "_" \o b \o "_layer_" \o ToString(k) :
        c \in {"sunlit", "shaded"}, k \in 0..(ml_nlayers - 1)}

LayerNames(b) == {b \o "_layer_" \o ToString(k) : k \in 0..(ml_nlayers - 1)}

\* C6: for nlayers = N > 0 the output names the canopy module binds are exactly
\* c_b_layer_k for the leaf classes c, the multiclass base names b and
\* 0 <= k < N, together with b_layer_k for the pure multilayer base names, k
\* zero-based and unpadded; the names are pairwise distinct (N*|C| per
\* multiclass base, N per pure base, 20 for incident_par at N = 10) and none is
\* the name of an input of the module such as rh, windspeed or LeafN.
C6_MultilayerNames ==
    CanopyConstructed =>
        /\ CanopyBoundNames =
              LeafClassNames("incident_par") \cup LeafClassNames("fraction")
                 \cup LayerNames("incident_scattered_par")
                 \cup LayerNames("incident_average_par") \cup LayerNames("height")
                 \cup LayerNames("rh") \cup LayerNames("windspeed")
                 \cup LayerNames("LeafN")
        /\ \A i \in DOMAIN ml_outputs : Len(ml_outputs[i]) = ml_nlayers
        /\ Cardinality(CanopyBoundNames) = Len(ml_outputs) * ml_nlayers
        /\ Cardinality(CanopyBoundNames) = 2 * 2 * ml_nlayers + 6 * ml_nlayers
        /\ Cardinality(LeafClassNames("incident_par") \cap CanopyBoundNames)
              = 2 * ml_nlayers
        /\ Cardinality(LayerNames("rh") \cap CanopyBoundNames) = ml_nlayers
        /\ CanopyBoundNames \cap Range(ml_inputs) = {}
        /\ {"rh", "windspeed", "LeafN"} \subseteq Range(ml_inputs)
        /\ "sunlit_incident_par_layer_0" \in CanopyBoundNames
        /\ "sunlit_incident_par_layer_00" \notin CanopyBoundNames
        /\ (ml_nlayers = 10 =>
               /\ "shaded_incident_par_layer_9" \in CanopyBoundNames
               /\ "sunlit_incident_par_layer_10" \notin CanopyBoundNames
               /\ "sunlit_incident_par_layer_09" \notin CanopyBoundNames
               /\ Cardinality({n \in CanopyBoundNames :
                                 n \in LeafClassNames("incident_par")}) = 20)

\* C6 witness: a ten-layer canopy has been constructed and its third output
\* member holds shaded_incident_par_layer_0 .. shaded_incident_par_layer_9.
C6_Witness ==
    /\ CanopyConstructed
    /\ ml_nlayers = 10
    /\ Len(ml_outputs) = 10
    /\ ml_outputs[3][1] = "shaded_incident_par_layer_0"
    /\ ml_outputs[3][10] = "shaded_incident_par_layer_9"
    /\ Cardinality(CanopyBoundNames) = 100

\* C7: one evaluation of a module writes every quantity named by its
\* get_outputs() and leaves every other quantity of the stores, all of its
\* inputs included, unchanged.
C7_EvaluationFrame ==
    [][Len(evals') = Len(evals) + 1 =>
          LET outs == SeqToSet(get_outputs(focus))
          IN  /\ writes' = outs
              /\ DOMAIN quantities' = DOMAIN quantities
              /\ DOMAIN derivatives' = DOMAIN derivatives
              /\ \A q \in DOMAIN quantities :
                    (IsDerivModule(focus) \/ q \notin outs) =>
                        quantities'[q] = quantities[q]
              /\ \A q \in DOMAIN derivatives :
                    (~IsDerivModule(focus) \/ q \notin outs) =>
                        derivatives'[q] = derivatives[q]
              /\ \A q \in SeqToSet(get_inputs(focus)) :
                    quantities'[q] = quantities[q]]_vars

\* C7 witness: senescence_coefficient_logistic has been evaluated after a
\* bystander quantity was written; its four outputs were written and the
\* bystander kept its value.
C7_Witness ==
    /\ focus = "senescence_coefficient_logistic"
    /\ Len(evals) = 1
    /\ nsets = 1
    /\ quantities["rh"] = R(2)
    /\ writes = {"kSeneStem", "kSeneLeaf", "kSeneRoot", "kSeneRhizome"}
    /\ quantities["kSeneStem"] = <<1, 5>>

\* C8: the names the constructor binds as inputs are exactly get_inputs(), the
\* names it binds as outputs are exactly get_outputs(), each declared name is
\* bound by one member, and an evaluation reads only declared inputs and
\* writes only declared outputs.
C8_DeclaredEqualsBound ==
    constructed =>
        /\ Range(bound.inputs) = SeqToSet(get_inputs(focus))
        /\ Range(bound.outputs) = SeqToSet(get_outputs(focus))
        /\ Cardinality(DOMAIN bound.inputs) = Len(get_inputs(focus))
        /\ Cardinality(Range(bound.inputs)) = Len(get_inputs(focus))
        /\ Cardinality(DOMAIN bound.outputs) = Len(get_outputs(focus))
        /\ Cardinality(Range(bound.outputs)) = Len(get_outputs(focus))
        /\ (Len(evals) > 0 =>
               /\ reads \subseteq SeqToSet(get_inputs(focus))
               /\ writes \subseteq SeqToSet(get_outputs(focus)))

\* C8 witness: ball_berry has been constructed and evaluated; it read its
\* eight declared inputs and wrote its declared output.
C8_Witness ==
    /\ focus = "ball_berry"
    /\ constructed
    /\ Len(evals) > 0
    /\ Cardinality(reads) = 8
    /\ "temp" \in reads
    /\ writes = {"leaf_stomatal_conductance"}

\* C9: two evaluations of a steady module against identical values of its
\* declared inputs yield identical values of all its outputs, whatever was
\* written to its outputs or to other quantities in between and however often
\* it ran.
C9_Purity ==
    ~IsDerivModule(focus) =>
        \A i \in DOMAIN evals, j \in DOMAIN evals :
            evals[i].in = evals[j].in => evals[i].out = evals[j].out

\* C9 witness: penman_monteith_leaf_temperature was evaluated twice on the same
\* inputs, its output having been overwritten in between (the store no longer
\* holds the value written from outside).
C9_Witness ==
    /\ focus = "penman_monteith_leaf_temperature"
    /\ Len(evals) = 2
    /\ nsets = 1
    /\ evals[1].in = evals[2].in
    /\ evals[1].in["temp"] = R(1)
    /\ \A n \in DOMAIN evals[1].in : evals[1].in[n] = R(1)
    /\ quantities["leaf_temperature"] = evals[2].out["leaf_temperature"]
    /\ quantities["leaf_temperature"] \notin Values
    /\ quantities["DVI"] = R(1)

\* Module a feeds module b: b reads a quantity a writes.
Feeds(a, b) == ModuleOutputs(a) \cap ModuleInputs(b) # {}

\* The modules reachable from m along Feeds in at most n steps.
RECURSIVE FedWithin(_, _, _)
FedWithin(m, ms, n) ==
    IF n = 0 THEN {}
    ELSE LET direct == {b \in ms : Feeds(m, b)}
         IN  direct \cup UNION {FedWithin(b, ms, n - 1) : b \in direct}

SystemAcyclic ==
    LET ms == SeqToSet(sys_modules)
    IN  \A m \in ms : m \notin FedWithin(m, ms, Cardinality(ms))

SystemSatisfiable ==
    \A i \in DOMAIN sys_modules :
        ModuleInputs(sys_modules[i]) \subseteq
            sys_parameters \cup Produced(sys_modules)

\* C10: for every set of steady modules whose input/output graph has no cycle
\* and whose inputs are all satisfiable, construction succeeds, and the order
\* it fixes holds every module once with each input of each module supplied by
\* a parameter, a state variable or a module placed earlier.
C10_TopologicalOrder ==
    /\ (sys_phase \in {"ready", "failed"} /\ SystemAcyclic /\ SystemSatisfiable)
           => sys_phase = "ready"
    /\ sys_phase = "ready" =>
           /\ Len(sys_order) = Len(sys_modules)
           /\ SeqToSet(sys_order) = SeqToSet(sys_modules)
           /\ \A i \in DOMAIN sys_order :
                 \A x \in ModuleInputs(sys_order[i]) :
                     \/ x \in sys_parameters
                     \/ \E j \in 1..(i - 1) : x \in ModuleOutputs(sys_order[j])

\* C10 witness: a chain of three modules, listed consumer first, has been
\* ordered producer first.
C10_Witness ==
    /\ sys_phase = "ready"
    /\ sys_modules = <<"assimilation_from_conductance",
                       "penman_monteith_leaf_temperature",
                       "fixed_stomatal_conductance">>
    /\ sys_order = <<"fixed_stomatal_conductance",
                     "penman_monteith_leaf_temperature",
                     "assimilation_from_conductance">>

SystemFinished == sys_phase \in {"ready", "failed"}

\* The system holds ball_berry and penman_monteith_leaf_temperature, which
\* read each other's output.
HasLeafEnergyCycle ==
    {"ball_berry", "penman_monteith_leaf_temperature"} \subseteq
        SeqToSet(sys_modules)

ByDoIntegrate == calls = <<"reset_ncalls", "do_integrate">>

LogPositions(x) == {i \in DOMAIN ev_log : ev_log[i] = x}

\* thermal_time_linear's rate for the temperatures bound in this pass.
BoundThermalRate ==
    IF RLeq(ev_store["temp"], ev_store["tbase"]) THEN R(0)
    ELSE RDiv(RSub(ev_store["temp"], ev_store["tbase"]), R(24))

\* C13: in every derivative evaluation the pass starts with bind, the steady
\* modules then run in the fixed order, no derivative module runs before every
\* steady module has run in that pass, collect comes last and after every
\* derivative module, and the collected vector holds the derivatives in the
\* order of the state vector (TTc's being thermal_time_linear's rate).
C13_PhaseOrder ==
    /\ ev_log # <<>> => (ev_log[1] = "bind" /\ LogPositions("bind") = {1})
    /\ \A i \in DOMAIN ev_log :
          ev_log[i] \in DerivativeModules =>
              /\ \A k \in DOMAIN sys_order :
                    \E j \in 1..(i - 1) : ev_log[j] = sys_order[k]
              /\ \A j \in (i + 1)..Len(ev_log) :
                    ev_log[j] \notin SeqToSet(sys_order)
    /\ \A k \in DOMAIN sys_order :
          (k + 1) \in DOMAIN ev_log /\ ev_log[k + 1] \notin DerivativeModules
              => ev_log[k + 1] = sys_order[k]
    /\ \A i \in LogPositions("collect") :
          /\ i = Len(ev_log)
          /\ \A m \in DerivativeModules :
                \E j \in 1..(i - 1) : ev_log[j] = m
          /\ Len(ev_log) = 2 + Len(sys_order) + Cardinality(DerivativeModules)
    /\ ev_result # <<>> => "collect" \in SeqToSet(ev_log)
    /\ ev_pc = "done" =>
          /\ Len(ev_result) = Len(ev_state_variables)
          /\ \A i \in DOMAIN ev_state_variables :
                ev_result[i] =
                    IF ev_state_variables[i] = "TTc" THEN BoundThermalRate
                    ELSE R(1)
          /\ \A k \in DOMAIN sys_order :
                ModuleOutputs(sys_order[k]) \subseteq ev_written

\* C13 witness: a second pass over a system of three steady modules has
\* finished, the derivative modules having run development_index_rate first,
\* and the vector collected for the state <<DVI, TTc>> is <<1, 5/24>>.
C13_Witness ==
    /\ ev_pc = "done"
    /\ ev_passes = 2
    /\ Len(sys_order) = 3
    /\ ev_state_variables = <<"DVI", "TTc">>
    /\ ev_log[5] = "development_index_rate"
    /\ ev_log[6] = "thermal_time_linear"
    /\ ev_result = <<R(1), <<5, 24>>>>

\* C14: on the stepping branch the counter is zero when do_integrate starts,
\* and from then until integrate returns it equals the number of derivative
\* evaluations made in this call, whatever it held at entry; once the call has
\* returned it has only grown by evaluations made by other callers.
C14_NcallsPerCall ==
    /\ pc = "call_do_integrate" => ncalls = 0
    /\ (pc \in {"stepping", "return"} /\ ByDoIntegrate) =>
           /\ ncalls = steps_done
           /\ steps_done <= need_steps
    /\ (pc = "return" /\ ByDoIntegrate) => ncalls = pending.len
    /\ (pc = "idle" /\ ByDoIntegrate) =>
           /\ ret.by = "do_integrate"
           /\ ncalls >= ret.len
           /\ ncalls <= ret.len + MaxOutsideCalls

\* C14 witness: the counter held 2 when a second integrate call was entered;
\* that call made one derivative evaluation and is about to return with the
\* counter at 1.
C14_Witness ==
    /\ pc = "return"
    /\ ByDoIntegrate
    /\ ncompleted = 1
    /\ ncalls_at_entry = 2
    /\ steps_done = 1
    /\ ncalls = 1

\* C15: operator() reports "no system_solver with that name could be found"
\* only for a name that is no key of the registry; a failure raised inside the
\* creator of a registered name is never reported with that message.
C15_UnknownOnlyWhenUnregistered ==
    (/\ nfcalls > 0
     /\ fresult.kind = "out_of_range"
     /\ Contains(fresult.message,
                 "no system_solver with that name could be found"))
        => fcall.name \notin DOMAIN system_solver_creators

\* C16: from the moment integrate is entered the integrator's
\* integrate_method_has_been_called flag is true: on either branch, while the
\* call runs, when it returns a series or ends in a failure, and after any
\* later integrate call on the same integrator.
C16_FlagSet ==
    /\ []((pc # "idle" \/ calls # <<>>) => integrate_method_has_been_called)
    /\ [][(pc # "idle" \/ pc' # "idle") => integrate_method_has_been_called']_vars

\* C16 witness: the second integrate call on one integrator, on the fallback
\* branch, has ended in a failure and the flag is set.
C16_Witness ==
    /\ pc = "idle"
    /\ ncompleted = 2
    /\ calls = <<"handle_adaptive_incompatibility">>
    /\ ret.kind = "AdaptiveIncompatible"
    /\ integrate_method_has_been_called

\* The last request was refused with the unknown-solver error.
UnknownSolverReported ==
    /\ fresult.kind = "out_of_range"
    /\ Contains(fresult.message,
                "no system_solver with that name could be found")

\* C17: get_solvers() returns exactly the registered identifiers, each once; a
\* name is accepted by operator() (no unknown-solver error) if and only if it
\* is in the list get_solvers() returned; neither operation changes the
\* registry.
C17_SolversListed ==
    /\ system_solver_creators = CreatorsInit
    /\ solver_name_vector # <<>> =>
          /\ SeqToSet(solver_name_vector) = DOMAIN system_solver_creators
          /\ Len(solver_name_vector) = Cardinality(DOMAIN system_solver_creators)
    /\ (nfcalls > 0 /\ solver_name_vector # <<>>) =>
          (~UnknownSolverReported <=> fcall.name \in SeqToSet(solver_name_vector))

\* (further claims are added above this line)

=============================================================================
